---- MODULE Spec2Model ----
(***************************************************************************)
(* RoutingEngine (routingEngine.ts): graph construction from road          *)
(* segments, nearest-node resolution of the endpoints and the A* search    *)
(* findPath with its path reconstruction.                                  *)
(*                                                                         *)
(* Numbers.  Coordinates lie on one meridian and are given by their        *)
(* position in km, so calculateDistance (haversine) is |a - b| km.         *)
(* Times (gScore, the returned time) are kept in 1/60 hour, so that        *)
(* distance / speed is exact for the speeds used; fScore adds the          *)
(* heuristic in km to the gScore in hours, i.e. 60 * km in these units.    *)
(* Node ids `${segmentId}_${index}` are the pairs <<segmentId, index>>.    *)
(***************************************************************************)
EXTENDS Integers, Sequences, FiniteSets, TLC

VARIABLES
  roadSegments,   \* this.roadSegments
  routingMode,    \* this.routingMode
  nodes,          \* this.nodes: node id -> RoutingNode
  nodeOrder,      \* insertion order of this.nodes (Map iteration order)
  startNodeId,    \* this.startNodeId
  endNodeId,      \* this.endNodeId
  startCoord,     \* <<startCoord>> of the last setStartAndEndPoints, <<>> before it
  endCoord,       \* <<endCoord>> of the last setStartAndEndPoints, <<>> before it
  pc,             \* "idle", "ready" (endpoints set, search not yet called) or
                  \* "await" (findPath suspended in delayForAnimation)
  openSet,        \* findPath's openSet (insertion ordered)
  examinedNodes,  \* findPath's examinedNodes
  result,         \* what the last completed findPath returned or threw
  afterOther,     \* history: a search with other endpoints has returned before
  osmInput,       \* the input given to parseOsmData
  parseResult,    \* "none" before parseOsmData completes, then "returned" or "threw"
  ui              \* MapComponent: its React state, the loads in flight and the
                  \* engine it constructed last

vars == <<roadSegments, routingMode, nodes, nodeOrder, startNodeId, endNodeId,
          startCoord, endCoord, pc, openSet, examinedNodes, result, afterOther,
          osmInput, parseResult, ui>>

----------------------------------------------------------------------------
(* Bounds of the inputs *)

MaxSegs == 2

MaxVerts == 3

MaxTagLen == 4

MaxRefs == 2

MaxMarkers == 2

MaxLoads == 2

(* Program values *)

Infinity == 1000000000

Null == <<>>

Modes == {"car", "bicycle", "pedestrian"}

Labels == {"car", "bicycle", "pedestrian", "all"}

----------------------------------------------------------------------------
(* Helpers on sequences *)

Range(s) == {s[i] : i \in 1..Len(s)}

Last(s) == s[Len(s)]

Abs(x) == IF x < 0 THEN -x ELSE x

RECURSIVE SumSeq(_)
SumSeq(s) == IF s = <<>> THEN 0 ELSE Head(s) + SumSeq(Tail(s))

----------------------------------------------------------------------------
(* GeoMath *)

calculateDistance(c1, c2) == Abs(c2 - c1)

calculateHeuristic(c1, c2) == calculateDistance(c1, c2)

\* distance / speed, in 1/60 hour
TravelTime(distance, speed) == (distance * 60) \div speed

\* tentativeGScore + heuristic: hours + km, in 1/60 units
AddHeuristic(g, h) == g + 60 * h

----------------------------------------------------------------------------
(* Graph construction *)

\* Variant: the node id is made of the vertex index alone
getNodeId_indexOnly(segmentId, nodeIndex) == <<1, nodeIndex>>

getNodeId(segmentId, nodeIndex) == <<segmentId, nodeIndex>>

\* Variant: every segment passes the filter
isSegmentAccessible_any(segment, mode) == TRUE

isSegmentAccessible(segment, mode) ==
  CASE mode = "car" -> segment.accessibleBy = "car" \/ segment.accessibleBy = "all"
    [] mode = "bicycle" -> segment.accessibleBy = "bicycle" \/ segment.accessibleBy = "all"
    [] mode = "pedestrian" -> segment.accessibleBy = "pedestrian" \/ segment.accessibleBy = "all"
    [] OTHER -> TRUE

NewNode(nodeId, coord) ==
  [id |-> nodeId, coordinate |-> coord, neighbors |-> <<>>, heuristic |-> 0,
   gScore |-> Infinity, fScore |-> Infinity, visited |-> FALSE, cameFrom |-> Null]

\* Map.set(toNodeId, {distance, segmentId}) on the neighbors of one node
NeighborsSet(nbrs, toNodeId, distance, segmentId) ==
  LET entry == [to |-> toNodeId, distance |-> distance, segmentId |-> segmentId]
  IN IF \E i \in 1..Len(nbrs) : nbrs[i].to = toNodeId
       THEN [i \in 1..Len(nbrs) |-> IF nbrs[i].to = toNodeId THEN entry ELSE nbrs[i]]
       ELSE Append(nbrs, entry)

addNeighborConnection(g, fromNodeId, toNodeId, distance, segmentId) ==
  IF fromNodeId \in DOMAIN g.nodes
    THEN [g EXCEPT !.nodes[fromNodeId].neighbors =
                     NeighborsSet(@, toNodeId, distance, segmentId)]
    ELSE g

\* Which connections buildGraph registers for the vertex pair (index-1, index)
ConnectVertex(g, segment, mode, index) ==
  LET nodeId == getNodeId(segment.id, index)
      prevNodeId == getNodeId(segment.id, index - 1)
      distance == calculateDistance(segment.nodes[index + 1], segment.nodes[index])
      g1 == addNeighborConnection(g, nodeId, prevNodeId, distance, segment.id)
  IN IF ~segment.oneWay \/ mode # "car"
       THEN addNeighborConnection(g1, prevNodeId, nodeId, distance, segment.id)
       ELSE g1

\* segment.nodes.forEach body for vertices index .. last (index is 0-based)
RECURSIVE BuildSegment(_, _, _, _)
BuildSegment(g, segment, mode, index) ==
  IF index >= Len(segment.nodes) THEN g
  ELSE
    LET nodeId == getNodeId(segment.id, index)
        g1 == IF nodeId \in DOMAIN g.nodes THEN g
              ELSE [nodes |-> [n \in DOMAIN g.nodes \cup {nodeId} |->
                                 IF n = nodeId
                                   THEN NewNode(nodeId, segment.nodes[index + 1])
                                   ELSE g.nodes[n]],
                    order |-> Append(g.order, nodeId)]
        g2 == IF index > 0 THEN ConnectVertex(g1, segment, mode, index) ELSE g1
    IN BuildSegment(g2, segment, mode, index + 1)

RECURSIVE BuildFrom(_, _, _, _)
BuildFrom(g, segments, mode, k) ==
  IF k > Len(segments) THEN g
  ELSE IF ~isSegmentAccessible(segments[k], mode)
         THEN BuildFrom(g, segments, mode, k + 1)
         ELSE BuildFrom(BuildSegment(g, segments[k], mode, 0), segments, mode, k + 1)

buildGraph(segments, mode) ==
  BuildFrom([nodes |-> <<>>, order |-> <<>>], segments, mode, 1)

----------------------------------------------------------------------------
(* Nearest node *)

\* this.nodes.forEach of findClosestNodeId, from position i of the iteration
RECURSIVE ClosestFrom(_, _, _, _, _, _)
ClosestFrom(ns, order, coord, i, closestNodeId, minDistance) ==
  IF i > Len(order) THEN closestNodeId
  ELSE LET distance == calculateDistance(coord, ns[order[i]].coordinate)
       IN IF distance < minDistance
            THEN ClosestFrom(ns, order, coord, i + 1, order[i], distance)
            ELSE ClosestFrom(ns, order, coord, i + 1, closestNodeId, minDistance)

\* Variant: only nodes closer than 1 km are candidates
findClosestNodeId_cutoff(ns, order, coord) ==
  ClosestFrom(ns, order, coord, 1, Null, 1)

findClosestNodeId(ns, order, coord) ==
  ClosestFrom(ns, order, coord, 1, Null, Infinity)

----------------------------------------------------------------------------
(* Lookups *)

HasSegment(segments, segmentId) ==
  \E k \in 1..Len(segments) : segments[k].id = segmentId

\* this.roadSegments.find(s => s.id === segmentId), when HasSegment
getSegmentById(segments, segmentId) ==
  segments[CHOOSE k \in 1..Len(segments) :
             /\ segments[k].id = segmentId
             /\ \A j \in 1..(k - 1) : segments[j].id # segmentId]

HasNeighbor(ns, nodeId1, nodeId2) ==
  /\ nodeId1 \in DOMAIN ns
  /\ \E i \in 1..Len(ns[nodeId1].neighbors) : ns[nodeId1].neighbors[i].to = nodeId2

\* node1.neighbors.get(nodeId2).segmentId, when HasNeighbor; Null otherwise
findSegmentIdBetweenNodes(ns, nodeId1, nodeId2) ==
  IF ~HasNeighbor(ns, nodeId1, nodeId2) THEN Null
  ELSE LET nbrs == ns[nodeId1].neighbors
       IN nbrs[CHOOSE i \in 1..Len(nbrs) : nbrs[i].to = nodeId2].segmentId

----------------------------------------------------------------------------
(* findPath *)

NoResult ==
  [kind |-> "none", path |-> <<>>, examinedNodes |-> <<>>, distance |-> 0, time |-> 0]

Threw ==
  [kind |-> "threw", path |-> <<>>, examinedNodes |-> <<>>, distance |-> 0, time |-> 0]

Returned(path, examined, distance, time) ==
  [kind |-> "returned", path |-> path, examinedNodes |-> examined,
   distance |-> distance, time |-> time]

\* throw new Error('Start and end points not set')
EndpointsUnset(startId, endId) == startId = Null \/ endId = Null

\* throw new Error('Start or end node not found')
NodesMissing(ns, startId, endId) == startId \notin DOMAIN ns \/ endId \notin DOMAIN ns

\* Variant: missing endpoints are reported as "no path" instead of raised
UsageError_noPath ==
  [kind |-> "returned", path |-> <<>>, examinedNodes |-> <<>>, distance |-> 0, time |-> 0]

\* What the caller gets when findPath finds its endpoints missing
UsageError == Threw

\* Variant: the reset forgets the visited flag
ResetNode_keepVisited(node) ==
  [node EXCEPT !.gScore = Infinity, !.fScore = Infinity, !.cameFrom = Null]

\* Variant: the reset re-creates the node, dropping its connections
ResetNode_recreate(node) == NewNode(node.id, node.coordinate)

\* "Reset node scores", then the start node's scores
ResetNode(node) ==
  [node EXCEPT !.gScore = Infinity, !.fScore = Infinity,
               !.visited = FALSE, !.cameFrom = Null]

InitScores(ns, startId, endId) ==
  [n \in DOMAIN ns |->
     IF n = startId
       THEN [ResetNode(ns[n]) EXCEPT
               !.gScore = 0,
               !.fScore = AddHeuristic(0, calculateHeuristic(ns[startId].coordinate,
                                                             ns[endId].coordinate))]
       ELSE ResetNode(ns[n])]

\* Variant: the log is kept across invocations and not cleared
NewExaminedNodes_stale == examinedNodes

\* const examinedNodes: string[] = []
NewExaminedNodes == <<>>

\* openSet.forEach of getNodeWithLowestFScore, from position i
RECURSIVE LowestFrom(_, _, _, _, _)
LowestFrom(ns, open, i, lowestNodeId, lowestFScore) ==
  IF i > Len(open) THEN lowestNodeId
  ELSE IF open[i] \in DOMAIN ns /\ ns[open[i]].fScore < lowestFScore
         THEN LowestFrom(ns, open, i + 1, open[i], ns[open[i]].fScore)
         ELSE LowestFrom(ns, open, i + 1, lowestNodeId, lowestFScore)

\* Variant: the node that entered the frontier first is taken
getNodeWithLowestFScore_first(ns, open) == IF open = <<>> THEN Null ELSE open[1]

getNodeWithLowestFScore(ns, open) == LowestFrom(ns, open, 1, Null, Infinity)

\* Variant: the expanded node is left in the frontier
SetDelete_keep(open, nodeId) == open

SetDelete(open, nodeId) == SelectSeq(open, LAMBDA x : x # nodeId)

SetAdd(open, nodeId) == IF nodeId \in Range(open) THEN open ELSE Append(open, nodeId)

\* Variant: the callback skips neighbors that are already closed
SkipNeighbor_closedNeighbor(ns, currentNodeId, neighborId) ==
  neighborId \in DOMAIN ns /\ ns[neighborId].visited

\* The first statement of the neighbor callback: if (currentNode.visited) return
SkipNeighbor(ns, currentNodeId, neighborId) == ns[currentNodeId].visited

\* One call of the neighbor callback; st = [nodes, openSet]
RelaxNeighbor(st, segments, currentNodeId, endId, neighborData) ==
  LET ns == st.nodes
      neighborId == neighborData.to
  IN IF SkipNeighbor(ns, currentNodeId, neighborId) THEN st
     ELSE IF neighborId \notin DOMAIN ns THEN st
     ELSE IF ~HasSegment(segments, neighborData.segmentId) THEN st
     ELSE
       LET speed == getSegmentById(segments, neighborData.segmentId).speed
           time == TravelTime(neighborData.distance, speed)
           tentativeGScore == ns[currentNodeId].gScore + time
       IN IF tentativeGScore < ns[neighborId].gScore
            THEN [nodes |-> [ns EXCEPT
                     ![neighborId].cameFrom = currentNodeId,
                     ![neighborId].gScore = tentativeGScore,
                     ![neighborId].fScore =
                        AddHeuristic(tentativeGScore,
                                     calculateHeuristic(ns[neighborId].coordinate,
                                                        ns[endId].coordinate))],
                  openSet |-> SetAdd(st.openSet, neighborId)]
            ELSE st

\* currentNode.neighbors.forEach, from position i
RECURSIVE RelaxFrom(_, _, _, _, _)
RelaxFrom(st, segments, currentNodeId, endId, i) ==
  IF i > Len(st.nodes[currentNodeId].neighbors) THEN st
  ELSE RelaxFrom(RelaxNeighbor(st, segments, currentNodeId, endId,
                               st.nodes[currentNodeId].neighbors[i]),
                 segments, currentNodeId, endId, i + 1)

\* The while loop of reconstructPath, entered with currentNodeId
RECURSIVE ReconstructFrom(_, _, _, _, _, _)
ReconstructFrom(ns, segments, currentNodeId, path, totalDistance, totalTime) ==
  IF currentNodeId = Null
    THEN [path |-> path, distance |-> totalDistance, time |-> totalTime]
  ELSE
    LET path1 == <<currentNodeId>> \o path
    IN IF currentNodeId \notin DOMAIN ns \/ ns[currentNodeId].cameFrom = Null
         THEN [path |-> path1, distance |-> totalDistance, time |-> totalTime]
       ELSE
         LET current == ns[currentNodeId]
             from == current.cameFrom
             distance == calculateDistance(current.coordinate, ns[from].coordinate)
             segmentId == findSegmentIdBetweenNodes(ns, from, currentNodeId)
             counted == /\ from \in DOMAIN ns
                        /\ HasNeighbor(ns, from, currentNodeId)
                        /\ HasSegment(segments, segmentId)
         IN IF counted
              THEN ReconstructFrom(ns, segments, from, path1,
                      totalDistance + distance,
                      totalTime + TravelTime(distance,
                                             getSegmentById(segments, segmentId).speed))
              ELSE ReconstructFrom(ns, segments, from, path1, totalDistance, totalTime)

\* Variant: legs are charged per path node (its first stored edge), not per
\* back-pointer, so the first node of the path is charged too
reconstructPath_perNode(ns, segments, currentNodeId, examined) ==
  LET r == ReconstructFrom(ns, segments, currentNodeId, <<>>, 0, 0)
      nbrs == ns[Head(r.path)].neighbors
      extra == IF nbrs = <<>> THEN 0 ELSE nbrs[1].distance
      speed == IF nbrs = <<>> THEN 1
               ELSE getSegmentById(segments, nbrs[1].segmentId).speed
  IN Returned(r.path, examined, r.distance + extra,
              r.time + TravelTime(extra, speed))

\* Variant: the destination is entered in the examined log before returning
reconstructPath_logsEnd(ns, segments, currentNodeId, examined) ==
  LET r == ReconstructFrom(ns, segments, currentNodeId, <<>>, 0, 0)
  IN Returned(r.path, Append(examined, currentNodeId), r.distance, r.time)

\* Variant: the destination is pushed once more after the walk back
reconstructPath_endTwice(ns, segments, currentNodeId, examined) ==
  LET r == ReconstructFrom(ns, segments, currentNodeId, <<>>, 0, 0)
  IN Returned(Append(r.path, currentNodeId), examined, r.distance, r.time)

reconstructPath(ns, segments, currentNodeId, examined) ==
  LET r == ReconstructFrom(ns, segments, currentNodeId, <<>>, 0, 0)
  IN Returned(r.path, examined, r.distance, r.time)

\* Variant: the expanded node is not marked
CloseNode_skip(ns, currentNodeId) == ns

\* currentNode.visited = true
CloseNode(ns, currentNodeId) == [ns EXCEPT ![currentNodeId].visited = TRUE]

\* Variant: the destination test only asks whether there is a current node
ReachedDestination_anyNode(currentNodeId, thisEndNodeId) == currentNodeId # Null

\* if (currentNodeId === this.endNodeId)
ReachedDestination(currentNodeId, thisEndNodeId) == currentNodeId = thisEndNodeId

\* The while loop of findPath from its test up to the next await or return.
\* thisEndNodeId is the field this.endNodeId read by the destination test;
\* endId is the node the invocation bound to endNode when it was called.
RunLoop(ns, segments, open, examined, thisEndNodeId, endId) ==
  LET currentNodeId == getNodeWithLowestFScore(ns, open)
  IN IF open = <<>> \/ currentNodeId = Null \/ currentNodeId \notin DOMAIN ns
       THEN [pc |-> "idle", nodes |-> ns, openSet |-> open, examinedNodes |-> examined,
             result |-> Returned(<<>>, examined, 0, 0)]
     ELSE IF ReachedDestination(currentNodeId, thisEndNodeId)
       THEN [pc |-> "idle", nodes |-> ns, openSet |-> open, examinedNodes |-> examined,
             result |-> reconstructPath(ns, segments, currentNodeId, examined)]
     ELSE
       LET examined1 == Append(examined, currentNodeId)
           st0 == [nodes |-> CloseNode(ns, currentNodeId),
                   openSet |-> SetDelete(open, currentNodeId)]
           st1 == RelaxFrom(st0, segments, currentNodeId, endId, 1)
       IN [pc |-> "await", nodes |-> st1.nodes, openSet |-> st1.openSet,
           examinedNodes |-> examined1, result |-> NoResult]

----------------------------------------------------------------------------
(* osmParser.ts: tag interpretation *)

\* A tag map is a function from the keys present to their values.  The value
\* of maxspeed is the sequence of its characters; the other values are strings.
HasTag(tags, k) == k \in DOMAIN tags

\* tags[k] === v
TagIs(tags, k, v) == HasTag(tags, k) /\ tags[k] = v

carAccessibleTypes ==
  {"motorway", "trunk", "primary", "secondary", "tertiary",
   "unclassified", "residential", "service", "motorway_link",
   "trunk_link", "primary_link", "secondary_link", "tertiary_link"}

bikeAccessibleTypes ==
  {"cycleway", "path", "footway", "pedestrian", "track",
   "motorway", "trunk", "primary", "secondary", "tertiary",
   "unclassified", "residential", "service", "living_street"}

pedestrianAccessibleTypes ==
  {"footway", "pedestrian", "path", "track", "steps",
   "motorway", "trunk", "primary", "secondary", "tertiary",
   "unclassified", "residential", "service", "living_street"}

isCarAccessible(highway, tags) ==
  IF TagIs(tags, "access", "no") \/ TagIs(tags, "motor_vehicle", "no")
       \/ TagIs(tags, "motorcar", "no")
    THEN FALSE
    ELSE highway \in carAccessibleTypes

\* Variant: the admissible types decide alone
isBicycleAccessible_typeOnly(highway, tags) == highway \in bikeAccessibleTypes

isBicycleAccessible(highway, tags) ==
  IF TagIs(tags, "bicycle", "no") \/ TagIs(tags, "access", "no")
    THEN FALSE
    ELSE highway \in bikeAccessibleTypes

isPedestrianAccessible(highway, tags) ==
  IF TagIs(tags, "foot", "no") \/ TagIs(tags, "access", "no")
    THEN FALSE
    ELSE highway \in pedestrianAccessibleTypes

isRoadWay(tags, mode) ==
  IF ~HasTag(tags, "highway") THEN FALSE
  ELSE CASE mode = "car" -> isCarAccessible(tags["highway"], tags)
         [] mode = "bicycle" -> isBicycleAccessible(tags["highway"], tags)
         [] mode = "pedestrian" -> isPedestrianAccessible(tags["highway"], tags)
         [] OTHER -> FALSE

\* The value of a decimal digit character
DigitValue(c) ==
  CASE c = "0" -> 0 [] c = "1" -> 1 [] c = "2" -> 2 [] c = "3" -> 3 [] c = "4" -> 4
    [] c = "5" -> 5 [] c = "6" -> 6 [] c = "7" -> 7 [] c = "8" -> 8 [] c = "9" -> 9

IsDigit(c) == c \in {"0", "1", "2", "3", "4", "5", "6", "7", "8", "9"}

RECURSIVE SkipSpaces(_)
SkipSpaces(s) == IF s # <<>> /\ Head(s) = " " THEN SkipSpaces(Tail(s)) ELSE s

\* The digits at the front of s, read as a decimal number continuing acc
RECURSIVE ReadDigits(_, _)
ReadDigits(s, acc) ==
  IF s # <<>> /\ IsDigit(Head(s))
    THEN ReadDigits(Tail(s), 10 * acc + DigitValue(Head(s)))
    ELSE acc

\* parseInt(s): leading blanks, an optional sign, then as many digits as there
\* are; NaN when there is no digit
parseInt(s) ==
  LET t == SkipSpaces(s)
      negative == t # <<>> /\ Head(t) = "-"
      u == IF t # <<>> /\ Head(t) \in {"-", "+"} THEN Tail(t) ELSE t
  IN IF u # <<>> /\ IsDigit(Head(u))
       THEN [isNaN |-> FALSE,
             value |-> IF negative THEN -ReadDigits(u, 0) ELSE ReadDigits(u, 0)]
       ELSE [isNaN |-> TRUE, value |-> 0]

\* s.includes(t)
Includes(s, t) ==
  \E i \in 0..(Len(s) - Len(t)) : \A j \in 1..Len(t) : s[i + j] = t[j]

\* Math.round(n * 1.60934)
MphToKmh(n) == (n * 160934 + 50000) \div 100000

speedMap ==
  [motorway |-> 120, trunk |-> 100, primary |-> 80, secondary |-> 60,
   tertiary |-> 50, unclassified |-> 40, residential |-> 30, service |-> 20,
   motorway_link |-> 80, trunk_link |-> 70, primary_link |-> 60,
   secondary_link |-> 50, tertiary_link |-> 40, living_street |-> 15]

\* speedMap[highway] || 50
TableSpeed(highway) == IF highway \in DOMAIN speedMap THEN speedMap[highway] ELSE 50

getCarSpeed(highway, tags) ==
  IF HasTag(tags, "maxspeed") /\ tags["maxspeed"] # <<>>
    THEN LET maxspeed == parseInt(tags["maxspeed"])
         IN IF ~maxspeed.isNaN THEN maxspeed.value
            ELSE IF Includes(tags["maxspeed"], <<"m", "p", "h">>)
              THEN LET speedMph == parseInt(tags["maxspeed"])
                   IN IF ~speedMph.isNaN THEN MphToKmh(speedMph.value)
                      ELSE TableSpeed(highway)
            ELSE TableSpeed(highway)
    ELSE TableSpeed(highway)

getSpeedForRoadType(tags, mode) ==
  CASE mode = "car" -> getCarSpeed(tags["highway"], tags)
    [] mode = "bicycle" -> 20
    [] mode = "pedestrian" -> 5
    [] OTHER -> 50

isOneWay(tags) ==
  TagIs(tags, "oneway", "yes") \/ TagIs(tags, "oneway", "true") \/ TagIs(tags, "oneway", "1")

getAccessibleBy(tags) ==
  LET highway == IF HasTag(tags, "highway") THEN tags["highway"] ELSE ""
      a0 == IF highway \in {"motorway", "motorway_link"} THEN "car"
            ELSE IF highway = "cycleway" THEN "bicycle"
            ELSE IF highway \in {"footway", "pedestrian"} THEN "pedestrian"
            ELSE "all"
      a1 == IF (TagIs(tags, "motor_vehicle", "no") \/ TagIs(tags, "motorcar", "no"))
                 /\ a0 = "car"
              THEN "bicycle" ELSE a0
  IN IF TagIs(tags, "access", "no") THEN "pedestrian"
     ELSE IF TagIs(tags, "bicycle", "no") /\ a1 = "bicycle" THEN "pedestrian"
     ELSE LET a2 == IF TagIs(tags, "bicycle", "no") /\ a1 = "all" THEN "car" ELSE a1
          IN IF TagIs(tags, "foot", "no") /\ a2 = "pedestrian" THEN "car"
             ELSE IF TagIs(tags, "foot", "no") /\ a2 = "all" THEN "car"
             ELSE a2

----------------------------------------------------------------------------
(* osmParser.ts: parseOsmData *)

\* An input is described by what the library stages make of its bytes:
\*   ungzip, xml2js : "ok" or "throws" (pako.ungzip, xml2js raise on bad data)
\*   osm            : whether the parsed document has the root element osm
\*   node, way      : the node and way elements of the root, in document order
\* An element records whether it carries attributes (_attributes) and, if so,
\* the attributes the parser reads; node positions are km on the meridian.

\* tags[k] = v
ObjectSet(tags, k, v) == [x \in DOMAIN tags \cup {k} |-> IF x = k THEN v ELSE tags[x]]

\* tagArray.forEach of parseTags, from position i
RECURSIVE ParseTagsFrom(_, _, _)
ParseTagsFrom(tagArray, i, tags) ==
  IF i > Len(tagArray) THEN tags
  ELSE IF tagArray[i].hasAttributes
    THEN ParseTagsFrom(tagArray, i + 1, ObjectSet(tags, tagArray[i].k, tagArray[i].v))
    ELSE ParseTagsFrom(tagArray, i + 1, tags)

parseTags(tagData) == ParseTagsFrom(tagData, 1, <<>>)

\* nodeArray.forEach: reading an attribute of an element without attributes
\* raises a TypeError
RECURSIVE ExtractNodes(_, _, _)
ExtractNodes(nodeArray, i, nodeTable) ==
  IF i > Len(nodeArray) THEN [threw |-> FALSE, nodes |-> nodeTable]
  ELSE IF ~nodeArray[i].hasAttributes THEN [threw |-> TRUE, nodes |-> nodeTable]
  ELSE ExtractNodes(nodeArray, i + 1, ObjectSet(nodeTable, nodeArray[i].id, nodeArray[i].lat))

\* nodeRefs.forEach, from position i
RECURSIVE CollectRefs(_, _, _, _)
CollectRefs(nodeRefs, nodeTable, i, segmentNodes) ==
  IF i > Len(nodeRefs) THEN [threw |-> FALSE, segmentNodes |-> segmentNodes]
  ELSE IF ~nodeRefs[i].hasAttributes THEN [threw |-> TRUE, segmentNodes |-> segmentNodes]
  ELSE IF nodeRefs[i].ref \in DOMAIN nodeTable
    THEN CollectRefs(nodeRefs, nodeTable, i + 1,
                     Append(segmentNodes, nodeTable[nodeRefs[i].ref]))
    ELSE CollectRefs(nodeRefs, nodeTable, i + 1, segmentNodes)

\* if (segmentNodes.length >= 2)
LongEnough(segmentNodes) == Len(segmentNodes) >= 2

\* The body of ways.forEach for one way: the segments after it, or a throw
ProcessWay(way, nodeTable, mode, segments) ==
  LET tags == parseTags(way.tag)
  IN IF ~isRoadWay(tags, mode) THEN [threw |-> FALSE, segments |-> segments]
     ELSE LET refs == CollectRefs(way.nd, nodeTable, 1, <<>>)
          IN IF refs.threw THEN [threw |-> TRUE, segments |-> segments]
             ELSE IF ~LongEnough(refs.segmentNodes)
               THEN [threw |-> FALSE, segments |-> segments]
             ELSE IF ~way.hasAttributes THEN [threw |-> TRUE, segments |-> segments]
             ELSE [threw |-> FALSE,
                   segments |-> Append(segments,
                     [id |-> way.id,
                      nodes |-> refs.segmentNodes,
                      tags |-> tags,
                      speed |-> getSpeedForRoadType(tags, mode),
                      oneWay |-> isOneWay(tags),
                      accessibleBy |-> getAccessibleBy(tags)])]

\* ways.forEach, from position i
RECURSIVE ProcessWays(_, _, _, _, _)
ProcessWays(ways, nodeTable, mode, i, segments) ==
  IF i > Len(ways) THEN [threw |-> FALSE, segments |-> segments]
  ELSE LET r == ProcessWay(ways[i], nodeTable, mode, segments)
       IN IF r.threw THEN r
          ELSE ProcessWays(ways, nodeTable, mode, i + 1, r.segments)

\* The try block of parseOsmData
TryBlock(input, mode) ==
  IF input.ungzip = "throws" THEN [threw |-> TRUE, segments |-> <<>>]
  ELSE IF input.xml2js = "throws" THEN [threw |-> TRUE, segments |-> <<>>]
  ELSE IF ~input.osm THEN [threw |-> TRUE, segments |-> <<>>]
  ELSE LET extracted == ExtractNodes(input.node, 1, <<>>)
       IN IF extracted.threw THEN [threw |-> TRUE, segments |-> <<>>]
          ELSE ProcessWays(input.way, extracted.nodes, mode, 1, <<>>)

\* Variant: the error is passed on to the caller
Catch_rethrow(body) ==
  IF body.threw THEN [kind |-> "threw", segments |-> <<>>]
  ELSE [kind |-> "returned", segments |-> body.segments]

\* catch (error) { console.error(...); return [] }
Catch(body) ==
  IF body.threw THEN [kind |-> "returned", segments |-> <<>>]
  ELSE [kind |-> "returned", segments |-> body.segments]

parseOsmData(input, mode) == Catch(TryBlock(input, mode))

----------------------------------------------------------------------------
(* Inputs *)

\* A polyline of v vertices with 1 km legs
Polyline(v) == [i \in 1..v |-> i - 1]

\* getSpeedForRoadType for a residential way
SegmentSpeed(mode) ==
  CASE mode = "car" -> 30
    [] mode = "bicycle" -> 20
    [] mode = "pedestrian" -> 5
    [] OTHER -> 50

\* Way k of the map has k + 1 vertices (at most MaxVerts)
VertsOf(k) == IF k + 1 <= MaxVerts THEN k + 1 ELSE MaxVerts

SegmentShapes == [oneWay : BOOLEAN, accessibleBy : Labels]

\* The segments of the ways in `present`, in the order of their ids
RECURSIVE SegmentsOf(_, _, _, _)
SegmentsOf(present, shape, mode, k) ==
  IF k > MaxSegs THEN <<>>
  ELSE IF k \in present
    THEN <<[id |-> k, nodes |-> Polyline(VertsOf(k)), speed |-> SegmentSpeed(mode),
            oneWay |-> shape[k].oneWay, accessibleBy |-> shape[k].accessibleBy]>>
         \o SegmentsOf(present, shape, mode, k + 1)
    ELSE SegmentsOf(present, shape, mode, k + 1)

SegmentSets(mode) ==
  UNION {{SegmentsOf(present, shape, mode, 1) : shape \in [present -> SegmentShapes]}
         : present \in SUBSET (1..MaxSegs)}

\* Coordinates that may be passed to setStartAndEndPoints
ClickCoords == 0..(MaxVerts - 1)

\* Highway values: those of the three admissible lists and of speedMap, and one
\* that is in none
HighwayValues ==
  carAccessibleTypes \cup bikeAccessibleTypes \cup pedestrianAccessibleTypes
    \cup DOMAIN speedMap \cup {"bridleway"}

Absent == "(absent)"

\* The tag map with the given values, without the keys whose value is Absent
MakeTags(all) == [k \in {x \in DOMAIN all : all[x] # Absent} |-> all[k]]

\* Ways with or without each of the access tags
AccessTagSets ==
  {MakeTags([highway |-> h, access |-> a, motor_vehicle |-> mv, motorcar |-> mc,
             bicycle |-> b, foot |-> f]) :
     h \in HighwayValues \cup {Absent}, a \in {Absent, "no", "yes"},
     mv \in {Absent, "no"}, mc \in {Absent, "no"},
     b \in {Absent, "no"}, f \in {Absent, "no"}}

SpeedChars == {"5", "0", "-", " ", "m", "p", "h"}

\* The maxspeed values of at most MaxTagLen characters
SpeedValues == UNION {[1..n -> SpeedChars] : n \in 0..MaxTagLen}

SpeedTagSets ==
  {[highway |-> h, maxspeed |-> v] : h \in {"residential", "motorway"}, v \in SpeedValues}

KeyOrder ==
  <<"highway", "access", "motor_vehicle", "motorcar", "bicycle", "foot", "maxspeed">>

\* The tag elements of a way that carries the tags of the map
TagElems(tags) ==
  LET keys == SelectSeq(KeyOrder, LAMBDA k : k \in DOMAIN tags)
  IN [i \in 1..Len(keys) |-> [hasAttributes |-> TRUE, k |-> keys[i], v |-> tags[keys[i]]]]

NoAttributes == [hasAttributes |-> FALSE]

Nd(ref) == [hasAttributes |-> TRUE, ref |-> ref]

NodeElem(id, lat) == [hasAttributes |-> TRUE, id |-> id, lat |-> lat]

WayElem(id, tag, nd) == [hasAttributes |-> TRUE, id |-> id, tag |-> tag, nd |-> nd]

Document(node, way) ==
  [ungzip |-> "ok", xml2js |-> "ok", osm |-> TRUE, node |-> node, way |-> way]

\* Two nodes 1 km apart
TwoNodes == <<NodeElem(1, 0), NodeElem(2, 1)>>

ResidentialTags == [highway |-> "residential"]

GoodWay == WayElem(1, TagElems(ResidentialTags), <<Nd(1), Nd(2)>>)

\* One way over two known nodes, for every tag map
TagDocuments ==
  {Document(TwoNodes, <<WayElem(1, TagElems(tags), <<Nd(1), Nd(2)>>)>>) :
     tags \in AccessTagSets \cup SpeedTagSets}

\* nd elements: the two known nodes, an unknown node, an element without attributes
NdSeqs == UNION {[1..n -> {Nd(1), Nd(2), Nd(9), NoAttributes}] : n \in 0..MaxRefs}

WayVariants ==
  {[hasAttributes |-> attrs, id |-> 2, tag |-> tag, nd |-> nd] :
     attrs \in BOOLEAN,
     tag \in {<<>>, TagElems(ResidentialTags), <<NoAttributes>> \o TagElems(ResidentialTags)},
     nd \in NdSeqs}

\* A way of any shape, alone or before or after a well-formed way, over node
\* elements that are well-formed or not
ShapeDocuments ==
  {Document(node, way) :
     node \in {TwoNodes, Append(TwoNodes, NoAttributes)},
     way \in {<<>>} \cup UNION {{<<w>>, <<GoodWay, w>>, <<w, GoodWay>>} : w \in WayVariants}}

\* Bytes that do not decompress, do not parse as XML, or hold no osm root
FailingInputs ==
  {[ungzip |-> "throws", xml2js |-> "ok", osm |-> FALSE, node |-> <<>>, way |-> <<>>],
   [ungzip |-> "ok", xml2js |-> "throws", osm |-> FALSE, node |-> <<>>, way |-> <<>>],
   [ungzip |-> "ok", xml2js |-> "ok", osm |-> FALSE, node |-> <<>>, way |-> <<>>]}

OsmInputs == TagDocuments \cup ShapeDocuments \cup FailingInputs

\* The map files offered for selection: one road of the named highway type
MapFiles == {"residential", "cycleway"}

\* What fetch, ungzip and xml2js make of a map file
MapDocument(mapPath) ==
  Document(TwoNodes, <<WayElem(1, TagElems([highway |-> mapPath]), <<Nd(1), Nd(2)>>)>>)

\* No MapComponent is mounted
NoUi == <<>>

\* selectedMap === null
NoMap == ""

\* No segments have been ingested
NoMode == ""

\* No file has been given to the parser
NoInput == [ungzip |-> "ok", xml2js |-> "ok", osm |-> FALSE, node |-> <<>>, way |-> <<>>]

----------------------------------------------------------------------------
(* The engine *)

Init ==
  /\ routingMode \in Modes
  /\ roadSegments \in SegmentSets(routingMode)
  /\ nodes = buildGraph(roadSegments, routingMode).nodes
  /\ nodeOrder = buildGraph(roadSegments, routingMode).order
  /\ startNodeId = Null
  /\ endNodeId = Null
  /\ startCoord = <<>>
  /\ endCoord = <<>>
  /\ pc = "idle"
  /\ openSet = <<>>
  /\ examinedNodes = <<>>
  /\ result = NoResult
  /\ afterOther = FALSE
  /\ osmInput = NoInput
  /\ parseResult = "none"
  /\ ui = NoUi

\* The caller sets the endpoints between searches; a second call before the
\* search would only overwrite the first, so one call per search is modelled.
SetStartAndEndPoints(sc, ec) ==
  /\ pc = "idle"
  /\ startNodeId' = findClosestNodeId(nodes, nodeOrder, sc)
  /\ endNodeId' = findClosestNodeId(nodes, nodeOrder, ec)
  /\ startCoord' = <<sc>>
  /\ endCoord' = <<ec>>
  /\ pc' = "ready"
  /\ afterOther' = (afterOther \/ (result.kind = "returned" /\
                                    <<startNodeId', endNodeId'>> # <<startNodeId, endNodeId>>))
  /\ UNCHANGED <<roadSegments, routingMode, nodes, nodeOrder, openSet,
                 examinedNodes, result, osmInput, parseResult, ui>>

\* findPath up to its first await, return or throw
FindPathCall ==
  /\ pc \in {"idle", "ready"}
  /\ IF EndpointsUnset(startNodeId, endNodeId)
          \/ NodesMissing(nodes, startNodeId, endNodeId)
       THEN /\ result' = UsageError
            /\ pc' = "idle"
            /\ UNCHANGED <<nodes, openSet, examinedNodes>>
       ELSE LET r == RunLoop(InitScores(nodes, startNodeId, endNodeId), roadSegments,
                             <<startNodeId>>, NewExaminedNodes, endNodeId, endNodeId)
            IN /\ nodes' = r.nodes
               /\ pc' = r.pc
               /\ openSet' = r.openSet
               /\ examinedNodes' = r.examinedNodes
               /\ result' = r.result
  /\ UNCHANGED <<roadSegments, routingMode, nodeOrder, startNodeId, endNodeId,
                 startCoord, endCoord, afterOther, osmInput, parseResult, ui>>

\* delayForAnimation's timer fires: the loop continues to its next await or return
FindPathResume ==
  /\ pc = "await"
  /\ LET r == RunLoop(nodes, roadSegments, openSet, examinedNodes, endNodeId, endNodeId)
     IN /\ nodes' = r.nodes
        /\ pc' = r.pc
        /\ openSet' = r.openSet
        /\ examinedNodes' = r.examinedNodes
        /\ result' = r.result
  /\ UNCHANGED <<roadSegments, routingMode, nodeOrder, startNodeId, endNodeId,
                 startCoord, endCoord, afterOther, osmInput, parseResult, ui>>

Next ==
  \/ \E sc \in ClickCoords, ec \in ClickCoords : SetStartAndEndPoints(sc, ec)
  \/ FindPathCall
  \/ FindPathResume

Spec == Init /\ [][Next]_vars

\* An engine constructed for the car mode, the mode in which one-way
\* segments differ from two-way ones
InitCar == Init /\ routingMode = "car"

\* delayForAnimation resolves after a timer of 50 ms: a suspended search is
\* always resumed
SpecFair == InitCar /\ [][Next]_vars /\ WF_vars(FindPathResume)

----------------------------------------------------------------------------
(* Selection: the search loop resumed on a frontier of several nodes *)

\* One two-way road of MaxVerts vertices, open to every mode
SelectSegments ==
  SegmentsOf({MaxSegs}, [k \in {MaxSegs} |-> [oneWay |-> FALSE, accessibleBy |-> "all"]],
             "car", 1)

\* fScore values of frontier nodes (finite: a node enters the frontier with
\* the score its relaxation computed)
FScoreValues == {0, 60, 120}

\* The insertion orders of the non-empty sets of nodes of S: a Set<string>
\* iterates in insertion order
Orderings(S) ==
  {o \in UNION {[1..k -> S] : k \in 1..Cardinality(S)} :
     \A i, j \in 1..Len(o) : o[i] = o[j] => i = j}

\* A search suspended with any frontier and any scores on its nodes
InitSelect ==
  /\ routingMode = "car"
  /\ roadSegments = SelectSegments
  /\ nodeOrder = buildGraph(roadSegments, routingMode).order
  /\ \E f \in [Range(nodeOrder) -> FScoreValues] :
       nodes = [n \in Range(nodeOrder) |->
                  [buildGraph(roadSegments, routingMode).nodes[n]
                     EXCEPT !.fScore = f[n], !.gScore = f[n]]]
  /\ openSet \in Orderings(Range(nodeOrder))
  /\ startNodeId = nodeOrder[1]
  /\ endNodeId \in Range(nodeOrder)
  /\ startCoord = <<>>
  /\ endCoord = <<>>
  /\ pc = "await"
  /\ examinedNodes = <<>>
  /\ result = NoResult
  /\ afterOther = FALSE
  /\ osmInput = NoInput
  /\ parseResult = "none"
  /\ ui = NoUi

NextSelect == FindPathResume

SpecSelect == InitSelect /\ [][NextSelect]_vars

----------------------------------------------------------------------------
(* Ingestion: parseOsmData applied to an input *)

InitIngest ==
  /\ routingMode \in Modes
  /\ osmInput \in OsmInputs
  /\ parseResult = "none"
  /\ roadSegments = <<>>
  /\ nodes = <<>>
  /\ nodeOrder = <<>>
  /\ startNodeId = Null
  /\ endNodeId = Null
  /\ startCoord = <<>>
  /\ endCoord = <<>>
  /\ pc = "idle"
  /\ openSet = <<>>
  /\ examinedNodes = <<>>
  /\ result = NoResult
  /\ afterOther = FALSE
  /\ ui = NoUi

\* parseOsmData has no await: it runs to its return in one step
ParseOsmData ==
  /\ parseResult = "none"
  /\ LET r == parseOsmData(osmInput, routingMode)
     IN /\ parseResult' = r.kind
        /\ roadSegments' = r.segments
  /\ UNCHANGED <<routingMode, nodes, nodeOrder, startNodeId, endNodeId, startCoord,
                 endCoord, pc, openSet, examinedNodes, result, afterOther, osmInput, ui>>

NextIngest == ParseOsmData

SpecIngest == InitIngest /\ [][NextIngest]_vars

----------------------------------------------------------------------------
(* MapComponent (MapComponent.tsx): clicks, map selection, mode changes and *)
(* loads.  ui.origin and ui.destination are <<coordinate>> or Null;         *)
(* ui.loads holds, for each loadMapData call that has not finished, the     *)
(* file and the routingMode of the render that started it;                  *)
(* ui.segmentsMode is the mode the roadSegments state was ingested for and  *)
(* ui.engine holds the arguments of the last new RoutingEngine(...), if any. *)

\* Variant: the handler Leaflet calls is the one of the latest render
RegisteredClosure_latest ==
  [origin |-> ui.origin, destination |-> ui.destination, roadSegments |-> roadSegments,
   segmentsMode |-> ui.segmentsMode, routingMode |-> routingMode,
   isRouting |-> ui.isRouting]

\* The values the click handler reads.  map.on('click', handleMapClick) runs
\* once, in initializeMap, so the handler Leaflet calls is the one of the
\* render that initialized the map: the first one, with the initial state.
RegisteredClosure ==
  [origin |-> Null, destination |-> Null, roadSegments |-> <<>>, segmentsMode |-> NoMode,
   routingMode |-> "car", isRouting |-> FALSE]

\* calculateRoute of the render cl up to its first await; st is the state
\* the setters act on.  What follows await engine.findPath() is the search of
\* the engine specification.
calculateRoute(cl, st) ==
  IF cl.origin = Null \/ cl.destination = Null \/ cl.roadSegments = <<>> \/ cl.isRouting
    THEN st
  ELSE
    LET g == buildGraph(cl.roadSegments, cl.routingMode)
        startId == findClosestNodeId(g.nodes, g.order, cl.origin[1])
        endId == findClosestNodeId(g.nodes, g.order, cl.destination[1])
    IN [st EXCEPT !.engine = <<[segmentsMode |-> cl.segmentsMode,
                                routingMode |-> cl.routingMode]>>,
                  !.isRouting = (startId # Null /\ endId # Null)]

\* handleMapClick of the render cl, called with the clicked coordinate
handleMapClick(cl, st, coord) ==
  IF cl.origin = Null
    THEN [st EXCEPT !.origin = <<coord>>, !.markers = Append(@, "origin")]
  ELSE IF cl.destination = Null
    THEN calculateRoute(cl, [st EXCEPT !.destination = <<coord>>,
                                       !.markers = Append(@, "destination")])
  ELSE [st EXCEPT !.markers = <<"origin">>, !.origin = <<coord>>, !.destination = Null]

\* loadMapData(mapPath) in a render with this routingMode, up to its first await
loadMapData(st, mapPath, mode) ==
  [st EXCEPT !.isLoading = TRUE,
             !.loads = Append(@, [mapPath |-> mapPath, routingMode |-> mode])]

RemoveAt(s, i) == SubSeq(s, 1, i - 1) \o SubSeq(s, i + 1, Len(s))

\* The component after its first render and initializeMap; App starts with
\* no map selected and the mode 'car'
InitUi ==
  /\ routingMode = "car"
  /\ roadSegments = <<>>
  /\ ui = [selectedMap |-> NoMap, origin |-> Null, destination |-> Null,
           isLoading |-> FALSE, isRouting |-> FALSE, markers |-> <<>>,
           loads |-> <<>>, segmentsMode |-> NoMode, engine |-> <<>>]
  /\ nodes = <<>>
  /\ nodeOrder = <<>>
  /\ startNodeId = Null
  /\ endNodeId = Null
  /\ startCoord = <<>>
  /\ endCoord = <<>>
  /\ pc = "idle"
  /\ openSet = <<>>
  /\ examinedNodes = <<>>
  /\ result = NoResult
  /\ afterOther = FALSE
  /\ osmInput = NoInput
  /\ parseResult = "none"

\* Leaflet reports a click on the map
MapClick(coord) ==
  /\ Len(ui.markers) < MaxMarkers
  /\ ui' = handleMapClick(RegisteredClosure, ui, coord)
  /\ UNCHANGED <<roadSegments, routingMode, nodes, nodeOrder, startNodeId, endNodeId,
                 startCoord, endCoord, pc, openSet, examinedNodes, result, afterOther,
                 osmInput, parseResult>>

\* The user selects a map file: useEffect [selectedMap, mapLoaded]
SelectMap(mapPath) ==
  /\ mapPath # ui.selectedMap
  /\ Len(ui.loads) < MaxLoads
  /\ ui' = loadMapData([ui EXCEPT !.selectedMap = mapPath], mapPath, routingMode)
  /\ UNCHANGED <<roadSegments, routingMode, nodes, nodeOrder, startNodeId, endNodeId,
                 startCoord, endCoord, pc, openSet, examinedNodes, result, afterOther,
                 osmInput, parseResult>>

\* The user selects another travel mode: useEffect [routingMode]
SetRoutingMode(mode) ==
  /\ mode # routingMode
  /\ routingMode' = mode
  /\ IF ui.selectedMap # NoMap /\ roadSegments # <<>>
       THEN /\ Len(ui.loads) < MaxLoads
            /\ ui' = loadMapData([ui EXCEPT !.markers = <<>>, !.origin = Null,
                                            !.destination = Null],
                                 ui.selectedMap, mode)
       ELSE UNCHANGED ui
  /\ UNCHANGED <<roadSegments, nodes, nodeOrder, startNodeId, endNodeId,
                 startCoord, endCoord, pc, openSet, examinedNodes, result, afterOther,
                 osmInput, parseResult>>

\* The fetch of load i succeeds and parseOsmData returns: setRoadSegments,
\* then finally setIsLoading(false)
LoadCompletes(i) ==
  /\ i \in 1..Len(ui.loads)
  /\ roadSegments' = parseOsmData(MapDocument(ui.loads[i].mapPath),
                                  ui.loads[i].routingMode).segments
  /\ ui' = [ui EXCEPT !.segmentsMode = ui.loads[i].routingMode,
                      !.loads = RemoveAt(@, i),
                      !.isLoading = FALSE]
  /\ UNCHANGED <<routingMode, nodes, nodeOrder, startNodeId, endNodeId,
                 startCoord, endCoord, pc, openSet, examinedNodes, result, afterOther,
                 osmInput, parseResult>>

\* The fetch of load i fails or answers not ok: catch, then finally
\* setIsLoading(false)
LoadFails(i) ==
  /\ i \in 1..Len(ui.loads)
  /\ ui' = [ui EXCEPT !.loads = RemoveAt(@, i), !.isLoading = FALSE]
  /\ UNCHANGED <<roadSegments, routingMode, nodes, nodeOrder, startNodeId, endNodeId,
                 startCoord, endCoord, pc, openSet, examinedNodes, result, afterOther,
                 osmInput, parseResult>>

NextUi ==
  \/ \E coord \in ClickCoords : MapClick(coord)
  \/ \E mapPath \in MapFiles : SelectMap(mapPath)
  \/ \E mode \in Modes : SetRoutingMode(mode)
  \/ \E i \in 1..MaxLoads : LoadCompletes(i)
  \/ \E i \in 1..MaxLoads : LoadFails(i)

SpecUi == InitUi /\ [][NextUi]_vars

----------------------------------------------------------------------------
(* Vocabulary of the properties *)

\* The last findPath has returned (not thrown); its endpoints are the current ones
Returns == pc = "idle" /\ result.kind = "returned"

Successors(ns, n) == {ns[n].neighbors[i].to : i \in 1..Len(ns[n].neighbors)}

RECURSIVE ReachClosure(_, _)
ReachClosure(ns, seen) ==
  LET more == seen \cup UNION {Successors(ns, n) : n \in seen}
  IN IF more = seen THEN seen ELSE ReachClosure(ns, more)

\* The nodes reachable from s by directed edges of the graph
ReachableFrom(ns, s) == ReachClosure(ns, {s})

\* p[i] -> p[i+1] goes from vertex j to vertex j-1 of a one-way segment
AgainstOneWay(segments, a, b) ==
  /\ a[1] = b[1]
  /\ b[2] = a[2] - 1
  /\ \E k \in 1..Len(segments) : segments[k].id = a[1] /\ segments[k].oneWay

\* The engine was built from exactly one segment with these properties
SingleSegment(verts, oneWay, accessibleBy, speed) ==
  /\ Len(roadSegments) = 1
  /\ roadSegments[1].nodes = Polyline(verts)
  /\ roadSegments[1].oneWay = oneWay
  /\ roadSegments[1].accessibleBy = accessibleBy
  /\ roadSegments[1].speed = speed

----------------------------------------------------------------------------
(* Properties of findPath's result *)

\* C1: if the resolved end node is reachable from the resolved start node by
\* directed edges of the mode's graph, findPath returns a non-empty path that
\* begins with the start node id and ends with the end node id.
C1_ReachableEndIsFound ==
  (Returns /\ endNodeId \in ReachableFrom(nodes, startNodeId))
    => /\ result.path # <<>>
       /\ Head(result.path) = startNodeId
       /\ Last(result.path) = endNodeId

\* C2: in car mode no returned path steps from vertex i to vertex i-1 of a
\* one-way segment; in bicycle or pedestrian mode a search between vertex 0 and
\* the last vertex of a one-way segment, in either direction, returns a
\* non-empty path.
C2_OneWayInvariant ==
  Returns =>
    /\ routingMode = "car" =>
         \A i \in 1..(Len(result.path) - 1) :
           ~AgainstOneWay(roadSegments, result.path[i], result.path[i + 1])
    /\ routingMode \in {"bicycle", "pedestrian"} =>
         \A k \in 1..Len(roadSegments) :
           LET first == getNodeId(roadSegments[k].id, 0)
               last == getNodeId(roadSegments[k].id, Len(roadSegments[k].nodes) - 1)
           IN (/\ roadSegments[k].oneWay
               /\ {startNodeId, endNodeId} = {first, last})
                => result.path # <<>>

\* C3: if the resolved end node is not reachable from the resolved start node,
\* findPath returns an empty path and an examined-node log whose ids are exactly
\* the nodes reachable from the start node.
C3_UnreachableExaminesComponent ==
  (Returns /\ endNodeId \notin ReachableFrom(nodes, startNodeId))
    => /\ result.path = <<>>
       /\ Range(result.examinedNodes) = ReachableFrom(nodes, startNodeId)

\* C4: on one residential two-way segment A-B-C with 1 km legs, open to all,
\* car speed 30 km/h, the car search from A to C returns path [A, B, C],
\* distance 2 km and time 2/30 hour (4 in units of 1/60 hour).
C4_ThreeNodeScenario ==
  (/\ Returns
   /\ routingMode = "car"
   /\ SingleSegment(3, FALSE, "all", 30)
   /\ startNodeId = getNodeId(roadSegments[1].id, 0)
   /\ endNodeId = getNodeId(roadSegments[1].id, 2))
    => /\ result.path = <<getNodeId(roadSegments[1].id, 0),
                          getNodeId(roadSegments[1].id, 1),
                          getNodeId(roadSegments[1].id, 2)>>
       /\ result.distance = 2
       /\ result.time = 4

\* The car search B -> A has returned on a single one-way segment A, B
C5_Scenario ==
  /\ Returns
  /\ routingMode = "car"
  /\ SingleSegment(2, TRUE, "all", 30)
  /\ startNodeId = getNodeId(roadSegments[1].id, 1)
  /\ endNodeId = getNodeId(roadSegments[1].id, 0)

\* C5: on a single one-way residential segment with declared order A, B, the
\* car search from B to A returns an empty path and a non-empty examined-node
\* log that contains B.
C5_OneWayReverseSearch ==
  C5_Scenario
    => /\ result.path = <<>>
       /\ result.examinedNodes # <<>>
       /\ startNodeId \in Range(result.examinedNodes)

C5_Witness == C5_Scenario /\ startCoord = <<1>> /\ endCoord = <<0>>

\* The stored edge a -> b
EdgeOf(ns, a, b) ==
  LET nbrs == ns[a].neighbors
  IN nbrs[CHOOSE i \in 1..Len(nbrs) : nbrs[i].to = b]

\* Sum over the consecutive pairs of p from position i of the edge distances
RECURSIVE PathDistance(_, _, _)
PathDistance(ns, p, i) ==
  IF i >= Len(p) THEN 0
  ELSE EdgeOf(ns, p[i], p[i + 1]).distance + PathDistance(ns, p, i + 1)

\* Sum over the consecutive pairs of p from position i of
\* edge distance / speed of the segment that owns the edge
RECURSIVE PathTime(_, _, _, _)
PathTime(ns, segments, p, i) ==
  IF i >= Len(p) THEN 0
  ELSE LET e == EdgeOf(ns, p[i], p[i + 1])
       IN TravelTime(e.distance, getSegmentById(segments, e.segmentId).speed)
          + PathTime(ns, segments, p, i + 1)

\* C6: for every non-empty path returned by findPath, the returned time is the
\* sum over consecutive path pairs of edge distance / speed of the segment
\* owning the edge, and the returned distance is the sum of the edge distances.
C6_TotalsAreEdgeSums ==
  (Returns /\ result.path # <<>>)
    => /\ \A i \in 1..(Len(result.path) - 1) :
            /\ HasNeighbor(nodes, result.path[i], result.path[i + 1])
            /\ HasSegment(roadSegments,
                          EdgeOf(nodes, result.path[i], result.path[i + 1]).segmentId)
       /\ result.distance = PathDistance(nodes, result.path, 1)
       /\ result.time = PathTime(nodes, roadSegments, result.path, 1)

C6_Witness ==
  /\ Returns
  /\ result.path # <<>>
  /\ nodes[Head(result.path)].neighbors # <<>>

\* C7: when the frontier empties without the end node being selected, findPath
\* returns (does not raise) an empty path, distance 0, time 0 and the
\* examined-node log, which is non-empty and holds every node expanded (closed)
\* during the search.
C7_NoSolutionOutcome ==
  /\ [][(pc = "await" /\ openSet = <<>>)
          => (pc' = "idle" /\ result' = Returned(<<>>, examinedNodes, 0, 0))]_vars
  /\ []((Returns /\ result.path = <<>>)
          => /\ result.distance = 0
             /\ result.time = 0
             /\ result.examinedNodes # <<>>
             /\ \A n \in DOMAIN nodes :
                  nodes[n].visited => n \in Range(result.examinedNodes))

C7_Witness ==
  /\ Returns
  /\ result.path = <<>>
  /\ result.examinedNodes # <<>>
  /\ endNodeId \notin ReachableFrom(nodes, startNodeId)

\* C8: findPath raises exactly when the endpoints were never set or resolved to
\* null (empty graph), and a raising call changes no node; it never raises when
\* the endpoints were resolved on a non-empty graph.
C8_UsageErrors ==
  /\ []((pc = "idle" /\ result.kind # "none")
          => ((result.kind = "threw") <=> (startCoord = <<>> \/ DOMAIN nodes = {})))
  /\ []((startNodeId = Null \/ endNodeId = Null)
          <=> (startCoord = <<>> \/ DOMAIN nodes = {}))
  /\ [][result'.kind = "threw" => nodes' = nodes]_vars

C8_Witness ==
  /\ pc = "idle"
  /\ result.kind = "threw"
  /\ startCoord # <<>>
  /\ roadSegments # <<>>

\* findPath run to its end on a freshly constructed engine
RECURSIVE RunToEnd(_, _, _)
RunToEnd(r, segments, endId) ==
  IF r.pc = "idle" THEN r.result
  ELSE RunToEnd(RunLoop(r.nodes, segments, r.openSet, r.examinedNodes, endId, endId),
                segments, endId)

FreshFindPath(segments, mode, startId, endId) ==
  RunToEnd(RunLoop(InitScores(buildGraph(segments, mode).nodes, startId, endId),
                   segments, <<startId>>, <<>>, endId, endId),
           segments, endId)

\* C9: completed findPath calls on one engine with the same endpoints return the
\* same path, examined-node log, distance and time each time, whatever searches
\* ran before: each returns what the first search of a new engine returns.
C9_GraphReuse ==
  Returns => result = FreshFindPath(roadSegments, routingMode, startNodeId, endNodeId)

C9_Witness ==
  /\ Returns
  /\ afterOther
  /\ result.examinedNodes # <<>>

\* id is a node at minimal distance from coord
IsNearest(ns, id, coord) ==
  /\ id \in DOMAIN ns
  /\ \A n \in DOMAIN ns :
       calculateDistance(coord, ns[id].coordinate)
         <= calculateDistance(coord, ns[n].coordinate)

\* C10: setStartAndEndPoints returns, when some segment passes the mode filter,
\* two node ids each at minimal distance from its coordinate (however far), and
\* null for both when there is no segment or none passes the filter.
C10_NearestNode ==
  startCoord # <<>> =>
    IF \E k \in 1..Len(roadSegments) :
         roadSegments[k].accessibleBy \in {routingMode, "all"}
      THEN /\ IsNearest(nodes, startNodeId, startCoord[1])
           /\ IsNearest(nodes, endNodeId, endCoord[1])
      ELSE startNodeId = Null /\ endNodeId = Null

C10_Witness ==
  /\ startCoord # <<>>
  /\ startNodeId # Null
  /\ calculateDistance(startCoord[1], nodes[startNodeId].coordinate) > 0
  /\ endNodeId # startNodeId

----------------------------------------------------------------------------
(* Properties of the graph and of the search steps *)

\* C17: the distance returned with a non-empty path is at least the
\* straight-line distance between the resolved start and end nodes.
C17_DistanceAtLeastStraightLine ==
  (Returns /\ result.path # <<>>)
    => result.distance >= calculateDistance(nodes[startNodeId].coordinate,
                                            nodes[endNodeId].coordinate)

C17_Witness ==
  /\ Returns
  /\ result.path = <<startNodeId>>
  /\ startCoord # endCoord

\* The segments that pass the filter of the engine's mode
Accessible(segment) == segment.accessibleBy \in {routingMode, "all"}

\* C18: for every adjacent vertex pair of an accessible segment the graph holds
\* the edge vertex[i-1] -> vertex[i], and it holds the edge vertex[i] ->
\* vertex[i-1] exactly when the segment is not one-way or the mode is not car.
C18_EdgesPerSegment ==
  \A k \in 1..Len(roadSegments) :
    Accessible(roadSegments[k]) =>
      \A i \in 1..(Len(roadSegments[k].nodes) - 1) :
        LET prev == getNodeId(roadSegments[k].id, i - 1)
            this == getNodeId(roadSegments[k].id, i)
        IN /\ HasNeighbor(nodes, prev, this)
           /\ HasNeighbor(nodes, this, prev)
                <=> ~(roadSegments[k].oneWay /\ routingMode = "car")

\* The node scores when the expansion of the step begins: those of the
\* suspended search, or the freshly reset ones when findPath is called
ScoresBefore ==
  IF pc = "await" THEN nodes ELSE InitScores(nodes, startNodeId, endNodeId)

\* C19: when a node n is expanded, every neighbor m whose tentative cost
\* gScore(n) + distance(n, m) / speed(segment of the edge) is below gScore(m)
\* has afterwards that cost as gScore, n as back-pointer, and is in the frontier.
C19_RelaxationStep ==
  [][(pc' = "await" /\ (pc # "await" \/ examinedNodes' # examinedNodes))
       => LET n == Last(examinedNodes')
              before == ScoresBefore
          IN \A i \in 1..Len(before[n].neighbors) :
               LET edge == before[n].neighbors[i]
                   m == edge.to
                   tentative == before[n].gScore
                                  + TravelTime(edge.distance,
                                       getSegmentById(roadSegments, edge.segmentId).speed)
               IN tentative < before[m].gScore
                    => /\ nodes'[m].gScore = tentative
                       /\ nodes'[m].cameFrom = n
                       /\ m \in Range(openSet')]_vars

\* C20: every node of the graph is a vertex of an accessible segment, every
\* vertex of an accessible segment has a node, and a segment that does not pass
\* the filter has neither a node nor an edge in the graph.
C20_GraphRespectsFilter ==
  /\ \A n \in DOMAIN nodes :
       \E k \in 1..Len(roadSegments) :
         /\ Accessible(roadSegments[k])
         /\ roadSegments[k].id = n[1]
         /\ n[2] \in 0..(Len(roadSegments[k].nodes) - 1)
  /\ \A k \in 1..Len(roadSegments) :
       IF Accessible(roadSegments[k])
         THEN \A i \in 0..(Len(roadSegments[k].nodes) - 1) :
                getNodeId(roadSegments[k].id, i) \in DOMAIN nodes
         ELSE \A n \in DOMAIN nodes :
                /\ n[1] # roadSegments[k].id
                /\ \A i \in 1..Len(nodes[n].neighbors) :
                     nodes[n].neighbors[i].segmentId # roadSegments[k].id

C20_Witness ==
  /\ DOMAIN nodes # {}
  /\ \E k \in 1..Len(roadSegments) : ~Accessible(roadSegments[k])
  /\ \E k \in 1..Len(roadSegments) :
       Accessible(roadSegments[k]) /\ roadSegments[k].accessibleBy # "all"

----------------------------------------------------------------------------
(* Overlapping findPath invocations *)

\* Two invocations share this.nodes and this.endNodeId; each has its own
\* openSet, examinedNodes and endNode.  ov = [nodes, endNodeId, inv], where
\* inv[i] = [pc, openSet, examinedNodes, endNode, result].

\* The timer of invocation i fires: its loop continues to the next await or return
OverlapResume(ov, segments, i) ==
  LET r == RunLoop(ov.nodes, segments, ov.inv[i].openSet, ov.inv[i].examinedNodes,
                   ov.endNodeId, ov.inv[i].endNode)
  IN [ov EXCEPT !.nodes = r.nodes,
                !.inv[i] = [pc |-> r.pc, openSet |-> r.openSet,
                            examinedNodes |-> r.examinedNodes,
                            endNode |-> ov.inv[i].endNode, result |-> r.result]]

\* While the first invocation is suspended with the given locals, the endpoints
\* are set to the nodes closest to sc and ec and findPath is called again
OverlapCall(ns, order, segments, open, examined, endId, sc, ec) ==
  LET startId2 == findClosestNodeId(ns, order, sc)
      endId2 == findClosestNodeId(ns, order, ec)
      r == RunLoop(InitScores(ns, startId2, endId2), segments, <<startId2>>,
                   NewExaminedNodes, endId2, endId2)
  IN [nodes |-> r.nodes,
      endNodeId |-> endId2,
      inv |-> <<[pc |-> "await", openSet |-> open, examinedNodes |-> examined,
                 endNode |-> endId, result |-> NoResult],
                [pc |-> r.pc, openSet |-> r.openSet, examinedNodes |-> r.examinedNodes,
                 endNode |-> endId2, result |-> r.result]>>]

\* Some order of the timers from ov on ends with a result that is not in alone
RECURSIVE SomeOrderDiffers(_, _, _)
SomeOrderDiffers(ov, segments, alone) ==
  LET waiting == {i \in 1..2 : ov.inv[i].pc = "await"}
  IN IF waiting = {}
       THEN \E i \in 1..2 : ov.inv[i].result # alone[i]
       ELSE \E i \in waiting : SomeOrderDiffers(OverlapResume(ov, segments, i), segments, alone)

\* C16: when a findPath invocation is suspended and a second one is called on
\* the same engine, there is an order of their resumptions in which one of the
\* two returns a result other than the one it returns when it runs alone.
C16_OverlapInterferes ==
  pc = "await"
    => \E sc \in ClickCoords, ec \in ClickCoords :
         SomeOrderDiffers(
           OverlapCall(nodes, nodeOrder, roadSegments, openSet, examinedNodes,
                       endNodeId, sc, ec),
           roadSegments,
           <<FreshFindPath(roadSegments, routingMode, startNodeId, endNodeId),
             FreshFindPath(roadSegments, routingMode,
                           findClosestNodeId(nodes, nodeOrder, sc),
                           findClosestNodeId(nodes, nodeOrder, ec))>>)

\* No state admits any such order
C16_NeverInterferes ==
  pc = "await"
    => \A sc \in ClickCoords, ec \in ClickCoords :
         ~SomeOrderDiffers(
           OverlapCall(nodes, nodeOrder, roadSegments, openSet, examinedNodes,
                       endNodeId, sc, ec),
           roadSegments,
           <<FreshFindPath(roadSegments, routingMode, startNodeId, endNodeId),
             FreshFindPath(roadSegments, routingMode,
                           findClosestNodeId(nodes, nodeOrder, sc),
                           findClosestNodeId(nodes, nodeOrder, ec))>>)

----------------------------------------------------------------------------
(* Properties of ingestion *)

\* parseOsmData has returned
Parsed == parseResult = "returned"

\* The way elements of the input that carry attributes
InputWays == {w \in Range(osmInput.way) : w.hasAttributes}

\* Some emitted segment stems from the way
Emitted(w) == \E k \in 1..Len(roadSegments) : roadSegments[k].id = w.id

AccessKeys == {"access", "motor_vehicle", "motorcar", "bicycle", "foot"}

\* C11: in pedestrian mode, ingestion emits no RoadSegment for a way tagged
\* highway=motorway that carries no access tag.
C11_MotorwayNotForPedestrians ==
  (Parsed /\ routingMode = "pedestrian")
    => \A w \in InputWays :
         LET tags == parseTags(w.tag)
         IN (TagIs(tags, "highway", "motorway") /\ DOMAIN tags \cap AccessKeys = {})
              => ~Emitted(w)

\* The mode is denied by a negative access tag of the tag map
Denied(tags, mode) ==
  \/ TagIs(tags, "access", "no")
  \/ mode = "car" /\ TagIs(tags, "motor_vehicle", "no")
  \/ mode = "bicycle" /\ TagIs(tags, "bicycle", "no")
  \/ mode = "pedestrian" /\ TagIs(tags, "foot", "no")

\* C12: whatever its highway value, a way with access=no is emitted in no mode,
\* one with motor_vehicle=no not in car mode, one with bicycle=no not in bicycle
\* mode and one with foot=no not in pedestrian mode.
C12_NegativeTagsOverride ==
  Parsed => \A w \in InputWays : Denied(parseTags(w.tag), routingMode) => ~Emitted(w)

C12_Witness ==
  /\ Parsed
  /\ routingMode = "bicycle"
  /\ \E w \in InputWays :
       LET tags == parseTags(w.tag)
       IN /\ TagIs(tags, "bicycle", "no")
          /\ HasTag(tags, "highway")
          /\ tags["highway"] \in bikeAccessibleTypes
          /\ Len(w.nd) >= 2
          /\ ~Emitted(w)

AllDigits(v) == v # <<>> /\ \A i \in 1..Len(v) : IsDigit(v[i])

\* v is a number followed by the unit mph, with or without a blank between
IsMphValue(v) ==
  \E n \in 1..Len(v) :
    /\ AllDigits(SubSeq(v, 1, n))
    /\ SubSeq(v, n + 1, Len(v)) \in {<<"m", "p", "h">>, <<" ", "m", "p", "h">>}

\* The number at the front of an mph value
MphNumber(v) ==
  ReadDigits(SubSeq(v, 1, CHOOSE n \in 1..(Len(v) - 1) :
                            AllDigits(SubSeq(v, 1, n)) /\ ~IsDigit(v[n + 1])), 0)

\* C13: in car mode the speed of a segment whose way carries a speed tag is the
\* number times 1.60934, rounded, for a number with the unit mph; the number
\* for a plain number; and the table value of the highway type for a value
\* without any digit.
C13_ExplicitSpeedTag ==
  (Parsed /\ routingMode = "car")
    => \A k \in 1..Len(roadSegments) :
         LET seg == roadSegments[k]
             v == seg.tags["maxspeed"]
         IN (HasTag(seg.tags, "maxspeed") /\ v # <<>>)
              => /\ IsMphValue(v) => seg.speed = MphToKmh(MphNumber(v))
                 /\ AllDigits(v) => seg.speed = ReadDigits(v, 0)
                 /\ (\A i \in 1..Len(v) : ~IsDigit(v[i]))
                      => seg.speed = TableSpeed(seg.tags["highway"])

\* C14: every emitted RoadSegment has at least 2 coordinates and a speed
\* greater than 0, in every mode and whatever speed tag the way carries.
C14_SegmentInvariant ==
  Parsed => \A k \in 1..Len(roadSegments) :
              /\ Len(roadSegments[k].nodes) >= 2
              /\ roadSegments[k].speed > 0

\* The input cannot be ingested: it does not decompress or parse, has no osm
\* root, or holds a node element without attributes
InputFails ==
  \/ osmInput.ungzip = "throws"
  \/ osmInput.xml2js = "throws"
  \/ ~osmInput.osm
  \/ \E i \in 1..Len(osmInput.node) : ~osmInput.node[i].hasAttributes

\* C15: parseOsmData never raises; on an input that cannot be ingested it
\* returns the empty sequence.
C15_NeverRaises ==
  /\ parseResult \in {"none", "returned"}
  /\ (Parsed /\ InputFails) => roadSegments = <<>>

C15_Witness ==
  /\ Parsed
  /\ osmInput.osm
  /\ \E i \in 1..Len(osmInput.node) : ~osmInput.node[i].hasAttributes
  /\ GoodWay \in Range(osmInput.way)
  /\ roadSegments = <<>>

----------------------------------------------------------------------------
(* Properties of the search state and of the graph's shape *)

NoDuplicates(s) == \A i, j \in 1..Len(s) : s[i] = s[j] => i = j

\* C22: during a search no closed (visited) node is in the frontier, every
\* node of the examined log is closed, and no node id occurs twice in the
\* examined log, neither while the search runs nor in the log it returns.
C22_NodeLifecycle ==
  /\ pc = "await"
       => /\ \A n \in Range(openSet) : ~nodes[n].visited
          /\ \A n \in Range(examinedNodes) : nodes[n].visited
          /\ NoDuplicates(examinedNodes)
  /\ Returns => NoDuplicates(result.examinedNodes)

C22_Witness ==
  /\ pc = "await"
  /\ Len(examinedNodes) = 1
  /\ nodes[examinedNodes[1]].visited
  /\ nodes[examinedNodes[1]].neighbors # <<>>
  /\ afterOther

\* C23: both endpoints of every edge are vertices of one segment with
\* consecutive indexes, and the segment id stored on the edge is the id of
\* that segment, also when two segments have a vertex at the same coordinate.
C23_EdgesStayInsideSegments ==
  \A n \in DOMAIN nodes :
    \A i \in 1..Len(nodes[n].neighbors) :
      LET edge == nodes[n].neighbors[i]
      IN /\ edge.to[1] = n[1]
         /\ edge.segmentId = n[1]
         /\ Abs(edge.to[2] - n[2]) = 1
         /\ \E k \in 1..Len(roadSegments) :
              /\ roadSegments[k].id = n[1]
              /\ {n[2], edge.to[2]} \subseteq 0..(Len(roadSegments[k].nodes) - 1)
              /\ nodes[n].coordinate = roadSegments[k].nodes[n[2] + 1]
              /\ nodes[edge.to].coordinate = roadSegments[k].nodes[edge.to[2] + 1]

C23_Witness ==
  \E n \in DOMAIN nodes, m \in DOMAIN nodes :
    /\ n[1] # m[1]
    /\ nodes[n].coordinate = nodes[m].coordinate
    /\ nodes[n].neighbors # <<>>
    /\ nodes[m].neighbors # <<>>

\* C24: a search that returns a non-empty path has not entered the end node in
\* its examined log, and a search whose start and end resolve to the same node
\* returns the path of that one node, distance 0, time 0 and an empty log.
C24_EndTestedBeforeExpansion ==
  /\ (Returns /\ result.path # <<>>) => endNodeId \notin Range(result.examinedNodes)
  /\ (Returns /\ startNodeId = endNodeId)
       => result = Returned(<<startNodeId>>, <<>>, 0, 0)

C24_Witness ==
  /\ Returns
  /\ startNodeId = endNodeId
  /\ afterOther
  /\ result.path = <<endNodeId>>
  /\ result.examinedNodes = <<>>
  /\ \E n \in DOMAIN nodes : n # startNodeId

\* C26: findPath leaves the graph alone: the node ids, the coordinates and the
\* connections of the nodes are at every moment those buildGraph produced.
C26_GraphUnchangedBySearch ==
  LET built == buildGraph(roadSegments, routingMode).nodes
  IN /\ DOMAIN nodes = DOMAIN built
     /\ \A n \in DOMAIN nodes :
          /\ nodes[n].id = built[n].id
          /\ nodes[n].coordinate = built[n].coordinate
          /\ nodes[n].neighbors = built[n].neighbors

C26_Witness ==
  /\ Returns
  /\ afterOther
  /\ \E n \in DOMAIN nodes : nodes[n].visited /\ nodes[n].neighbors # <<>>
  /\ \E n \in DOMAIN nodes : nodes[n].gScore = 0

\* C27: every non-empty returned path is a walk of the graph (each node is
\* followed by one of its successors) and holds no node twice.
C27_PathIsSimpleWalk ==
  (Returns /\ result.path # <<>>)
    => /\ \A i \in 1..(Len(result.path) - 1) :
            HasNeighbor(nodes, result.path[i], result.path[i + 1])
       /\ NoDuplicates(result.path)
       /\ Range(result.path) \subseteq DOMAIN nodes

C27_Witness ==
  /\ Returns
  /\ result.path # <<>>
  /\ nodes[Last(result.path)].neighbors # <<>>
  /\ Last(result.path) = endNodeId
  /\ Head(result.path) = startNodeId

----------------------------------------------------------------------------
(* The label of an emitted segment against the engine's filter *)

\* C28: every segment parseOsmData emits for a mode carries a label that the
\* engine's filter accepts for that mode, whatever highway and access tags
\* the way has.
C28_EmittedLabelPassesFilter ==
  Parsed => \A k \in 1..Len(roadSegments) :
              isSegmentAccessible(roadSegments[k], routingMode)

----------------------------------------------------------------------------
(* Termination of findPath *)

Closed(ns) == {n \in DOMAIN ns : ns[n].visited}

\* C21: a search that is suspended after an expansion returns, provided its
\* suspensions are resumed; every further expansion closes a node that was
\* not closed before; and the search returns either with the end node as the
\* last node of its path or with an empty frontier.
C21_Terminates ==
  /\ (pc = "await") ~> Returns
  /\ [][(pc = "await" /\ pc' = "await")
          => Cardinality(Closed(nodes')) > Cardinality(Closed(nodes))]_vars
  /\ [](Returns => \/ result.path # <<>> /\ Last(result.path) = endNodeId
                   \/ result.path = <<>> /\ openSet = <<>>)

C21_Witness ==
  /\ Returns
  /\ startNodeId # endNodeId
  /\ endNodeId \in ReachableFrom(nodes, startNodeId)
  /\ result.path = <<>>
  /\ openSet = <<>>
  /\ Len(result.examinedNodes) >= 1

----------------------------------------------------------------------------
(* Selection of the node to expand *)

\* C25: the node a step of the loop selects, whether it is expanded or found
\* to be the destination, has an fScore that is at most the fScore of every
\* node of the frontier at that moment.
C25_SelectsLowestFScore ==
  [][/\ (pc = "await" /\ examinedNodes' # examinedNodes)
          => \A m \in Range(openSet) :
               nodes[Last(examinedNodes')].fScore <= nodes[m].fScore
     /\ (pc = "await" /\ pc' = "idle" /\ result'.path # <<>>)
          => \A m \in Range(openSet) :
               nodes[Last(result'.path)].fScore <= nodes[m].fScore]_vars

C25_Witness ==
  /\ pc = "await"
  /\ examinedNodes # <<>>
  /\ openSet # <<>>
  /\ \A m \in Range(openSet) : nodes[m].fScore > nodes[Last(examinedNodes)].fScore
  /\ \E m \in Range(openSet) : m[2] < Last(examinedNodes)[2]

----------------------------------------------------------------------------
(* Properties of the map component *)

\* C30: a click with no origin sets the origin; a click with an origin and no
\* destination sets the destination, keeps the origin and, when segments are
\* loaded and no route is being computed, starts a route computation; a click
\* with both set leaves one origin marker, the clicked origin and no
\* destination.
C30_ClickCycle ==
  [][\A coord \in ClickCoords :
       MapClick(coord)
         => /\ ui.origin = Null
                 => ui'.origin = <<coord>> /\ ui'.destination = Null
            /\ (ui.origin # Null /\ ui.destination = Null)
                 => /\ ui'.destination = <<coord>>
                    /\ ui'.origin = ui.origin
                    /\ (roadSegments # <<>> /\ ~ui.isRouting) => ui'.engine # <<>>
            /\ (ui.origin # Null /\ ui.destination # Null)
                 => /\ ui'.origin = <<coord>>
                    /\ ui'.destination = Null
                    /\ ui'.markers = <<"origin">>]_vars

\* No click, selection, mode change or load ever sets a destination, starts a
\* route computation or constructs an engine
UiNeverRoutes ==
  /\ ui.destination = Null
  /\ ~ui.isRouting
  /\ ui.engine = <<>>

\* The segments in the component's state were ingested for the selected mode
UiSegmentsOfCurrentMode ==
  roadSegments # <<>> => ui.segmentsMode = routingMode

====
